---------------------------- MODULE Spec2Model ----------------------------
(***************************************************************************)
(* A model of the data pipeline of the subway congestion dashboard         *)
(* (src/app.py): the value normalizers clean_time_slot and                 *)
(* clean_congestion, the reshape transform_wide_to_long, the loader        *)
(* load_and_process_data, and the query functions filter_data and          *)
(* calculate_kpis as main() drives them.                                   *)
(*                                                                         *)
(* Strings that the code inspects character by character (time labels,    *)
(* congestion cells) are sequences of Unicode code points, so that the     *)
(* regular expression, str.zfill, str.strip, float() and the string order  *)
(* of pandas comparisons are computed, not assumed.  Every cell of a table *)
(* is a Python value: [t |-> "str", s |-> <code points>], [t |-> "int",    *)
(* v |-> n], [t |-> "float", x |-> <float>], ...                           *)
(*                                                                         *)
(* A Python float is a record: [k |-> "nan"], [k |-> "inf", neg |-> b] or  *)
(* the fraction [k |-> "fin", p |-> p, q |-> q] = p / q in lowest terms.   *)
(* Arithmetic on floats is exact: the rounding of doubles is not modelled. *)
(***************************************************************************)
EXTENDS Integers, Sequences, FiniteSets, TLC

VARIABLES
    pc,          \* position of the run of main(), or "norm" for direct calls
    call,        \* the last direct call: [fn, arg, ret], or the ranking made
    df_raw,      \* load_raw_data's result: the wide table
    df_long,     \* transform_wide_to_long's result, or a raised error
    df,          \* load_and_process_data's result: the table main() keeps
    sel,         \* the sidebar selection passed to filter_data
    filtered_df, \* filter_data's result
    kpis,        \* calculate_kpis's result
    direction_compare_df, \* filter_for_direction_compare's result
    line_compare_df,      \* filter_for_line_compare's result
    top_df,      \* the ranking table of main()
    file,        \* the content of the data file: the wide table stored
    cache,       \* st.cache_data: per function, the results by arguments
    calls,       \* the number of steps taken on the cache or the objects
    heap         \* the DataFrame objects by identity: the rows of each

\* the comparison and ranking tables main() builds after the indicators
views == <<direction_compare_df, line_compare_df, top_df>>

\* the data file, the memo tables of the decorated functions and the
\* objects
env == <<file, cache, calls, heap>>

vars == <<pc, call, df_raw, df_long, df, sel, filtered_df, kpis, views, env>>

----------------------------------------------------------------------------
(* Bounds of the model.                                                    *)

\* longest time label handed directly to clean_time_slot
MaxLabelLen == 5
\* longest text cell handed directly to clean_congestion
MaxCellLen == 4

----------------------------------------------------------------------------
(* Characters: code points.                                                *)

\* U+C2DC, the literal after the hour group in the pattern
ChSi == 49884
\* U+BD84, the literal after the minute group in the pattern
ChBun == 48516
\* ':' of the f-string that joins hour and minute
ChColon == 58
\* '0', the fill character of str.zfill
ChZero == 48

ChSpace == 32
ChMinus == 45
ChDot == 46

IsDigit(c) == c \in 48..57

\* \s of str.strip() and of float(): the ASCII whitespace characters
IsSpace(c) == c \in {9, 10, 11, 12, 13, 32}

\* str.lower() on ASCII letters
Lower(c) == IF c \in 65..90 THEN c + 32 ELSE c

\* the literals "inf", "infinity", "nan" that float() accepts, lower-cased
StrInf == <<105, 110, 102>>
StrInfinity == <<105, 110, 102, 105, 110, 105, 116, 121>>
StrNan == <<110, 97, 110>>

----------------------------------------------------------------------------
(* clean_time_slot                                                         *)

\* the length of the longest run of digits of s that starts at position i
RECURSIVE DigitRun(_, _)
DigitRun(s, i) ==
    IF i <= Len(s) /\ IsDigit(s[i]) THEN 1 + DigitRun(s, i + 1) ELSE 0

\* str.zfill(width) of a string of digits: zeros on the left, never cut
RECURSIVE zfill(_, _)
zfill(t, width) ==
    IF Len(t) >= width THEN t ELSE zfill(<<ChZero>> \o t, width)

\* re.match(r'(\d+)<U+C2DC>(\d+)<U+BD84>', s): the pattern is matched at the start of s
\* and need not reach its end.  \d+ is greedy and neither literal is a digit,
\* so the only possible match takes the whole digit run for each group.
\* The result is <<>> (no match) or <<group(1), group(2)>>.
re_match(s) ==
    LET h == DigitRun(s, 1)
        m == DigitRun(s, h + 2)
    IN  IF /\ h >= 1
           /\ Len(s) >= h + 1
           /\ s[h + 1] = ChSi
           /\ m >= 1
           /\ Len(s) >= h + m + 2
           /\ s[h + m + 2] = ChBun
        THEN <<SubSeq(s, 1, h), SubSeq(s, h + 2, h + m + 1)>>
        ELSE <<>>

\* clean_time_slot
clean_time_slot(time_str) ==
    LET match == re_match(time_str)
    IN  IF match # <<>>
        THEN zfill(match[1], 2) \o <<ChColon>> \o zfill(match[2], 2)
        ELSE time_str

----------------------------------------------------------------------------
(* Python floats and float()                                               *)

NaN == [k |-> "nan"]
Inf(neg) == [k |-> "inf", neg |-> neg]

RECURSIVE GCD(_, _)
GCD(a, b) == IF b = 0 THEN a ELSE GCD(b, a % b)

Abs(n) == IF n < 0 THEN -n ELSE n

\* the finite float p / q (q > 0), in lowest terms
Rat(p, q) ==
    LET g == GCD(Abs(p), q)
    IN  [k |-> "fin", p |-> p \div g, q |-> q \div g]

RECURSIVE Pow10(_)
Pow10(e) == IF e = 0 THEN 1 ELSE 10 * Pow10(e - 1)

\* the finite float n / 10^e
Fin(n, e) == Rat(n, Pow10(e))

\* the value of a string of digits, most significant first
RECURSIVE DigitsValue(_)
DigitsValue(t) ==
    IF t = <<>> THEN 0
    ELSE 10 * DigitsValue(SubSeq(t, 1, Len(t) - 1)) + (t[Len(t)] - ChZero)

RECURSIVE lstrip(_)
lstrip(s) ==
    IF s # <<>> /\ IsSpace(s[1]) THEN lstrip(Tail(s)) ELSE s

RECURSIVE rstrip(_)
rstrip(s) ==
    IF s # <<>> /\ IsSpace(s[Len(s)])
    THEN rstrip(SubSeq(s, 1, Len(s) - 1)) ELSE s

\* str.strip()
strip(s) == rstrip(lstrip(s))

\* float(str): surrounding whitespace is ignored, then an optional sign and
\* "inf", "infinity", "nan" in any case, or digits with at most one point and
\* at least one digit.  (The exponent and underscore forms need characters
\* outside the alphabet of the modelled cells.)  ValueError otherwise.
float_of_str(s) ==
    LET t    == strip(s)
        neg  == t # <<>> /\ t[1] = ChMinus
        body == IF neg THEN Tail(t) ELSE t
        low  == [i \in 1..Len(body) |-> Lower(body[i])]
        ip   == DigitRun(body, 1)
        fp   == IF ip < Len(body) /\ body[ip + 1] = ChDot
                THEN DigitRun(body, ip + 2) ELSE 0
        used == IF ip < Len(body) /\ body[ip + 1] = ChDot
                THEN ip + 1 + fp ELSE ip
        mag  == DigitsValue(SubSeq(body, 1, ip)) * Pow10(fp)
                + DigitsValue(SubSeq(body, ip + 2, ip + 1 + fp))
    IN  IF low = StrInf \/ low = StrInfinity THEN Inf(neg)
        ELSE IF low = StrNan THEN NaN
        ELSE IF ip + fp >= 1 /\ used = Len(body)
             THEN Fin(IF neg THEN -mag ELSE mag, fp)
        ELSE [k |-> "raise", exc |-> "ValueError"]

\* Python values: str, int, float
PyStr(s) == [t |-> "str", s |-> s]
PyInt(v) == [t |-> "int", v |-> v]
PyFloat(x) == [t |-> "float", x |-> x]

\* float(value) for the Python values a cell can hold
float(value) ==
    CASE value.t = "str"    -> float_of_str(value.s)
      [] value.t = "float"  -> value.x
      [] value.t = "int"    -> Fin(value.v, 0)
      [] value.t = "bool"   -> Fin(IF value.b THEN 1 ELSE 0, 0)
      \* an int beyond the range of a double, such as 10**400
      [] value.t = "bigint" -> [k |-> "raise", exc |-> "OverflowError"]
      [] value.t = "None"   -> [k |-> "raise", exc |-> "TypeError"]
      [] value.t = "list"   -> [k |-> "raise", exc |-> "TypeError"]

\* pd.isna(value): a bool for a scalar, an array of bools for a list
pd_isna(value) ==
    CASE value.t = "None"  -> [scalar |-> TRUE, b |-> TRUE]
      [] value.t = "float" -> [scalar |-> TRUE, b |-> value.x = NaN]
      [] value.t = "list"  -> [scalar |-> FALSE, len |-> value.len, b |-> FALSE]
      [] OTHER             -> [scalar |-> TRUE, b |-> FALSE]

\* clean_congestion: the result is a float, or [k |-> "raise"] when an
\* exception leaves the function.  "if pd.isna(value)" takes the truth value
\* of an array when value is a list, which raises ValueError for two or more
\* elements; only ValueError and TypeError of float() are caught.
clean_congestion(value) ==
    LET na == pd_isna(value)
    IN  IF ~na.scalar /\ na.len >= 2
        THEN [k |-> "raise", exc |-> "ValueError"]
        ELSE IF na.b THEN NaN
        ELSE IF value.t = "str" /\ strip(value.s) = <<>> THEN NaN
        ELSE LET r == float(IF value.t = "str"
                            THEN [t |-> "str", s |-> strip(value.s)]
                            ELSE value)
             IN  IF r.k = "raise" /\ r.exc \in {"ValueError", "TypeError"}
                 THEN NaN ELSE r


----------------------------------------------------------------------------
(* The wide table: a DataFrame as pd.read_csv builds it.                   *)
(*   columns : the header, a sequence of distinct names (code points)      *)
(*   data    : the rows, each a sequence of values aligned with columns    *)
(* A cell of a table read from CSV is a float (NaN for an empty field),    *)
(* an int, a bool or a str.                                                *)

\* the two loop directions: U+B0B4 U+C120 (inner) and U+C678 U+C120 (outer)
DirInner == PyStr(<<45236, 49440>>)
DirOuter == PyStr(<<50808, 49440>>)

\* the five identifier columns, by their header in the source file
ColDayType == <<50836, 51068, 44396, 48516>>
ColLine == <<54840, 49440>>
ColStationId == <<50669, 48264, 54840>>
ColStationName == <<52636, 48156, 50669>>
ColDirection == <<49345, 54616, 44396, 48516>>

\* id_cols of transform_wide_to_long
id_cols == <<ColDayType, ColLine, ColStationId, ColStationName, ColDirection>>

Range(f) == {f[i] : i \in DOMAIN f}

\* the position of column name in the frame (0 when absent)
ColPos(frame, name) ==
    IF \E i \in 1..Len(frame.columns) : frame.columns[i] = name
    THEN CHOOSE i \in 1..Len(frame.columns) : frame.columns[i] = name
    ELSE 0

\* [col for col in df.columns if col not in id_cols]
time_cols_of(frame) ==
    SelectSeq(frame.columns, LAMBDA col : col \notin Range(id_cols))

\* pd.melt(df, id_vars, value_vars, var_name='time_slot',
\* value_name='congestion'): KeyError when an id_var is not a column;
\* otherwise one row per (value column, frame row), value column by value
\* column, with a fresh RangeIndex 0..R*K-1.  The identifier columns keep
\* their values; the renaming to day_type, ..., direction is folded in.
pd_melt(frame, id_vars, value_vars) ==
    IF \E v \in Range(id_vars) : ColPos(frame, v) = 0
    THEN [k |-> "raise", exc |-> "KeyError"]
    ELSE LET R == Len(frame.data)
             K == Len(value_vars)
             Cell(r, name) == frame.data[r][ColPos(frame, name)]
         IN  [k |-> "frame",
              rows |-> [i \in 1..(R * K) |->
                  LET j == ((i - 1) \div R) + 1
                      r == ((i - 1) % R) + 1
                  IN  [index        |-> i - 1,
                       day_type     |-> Cell(r, id_vars[1]),
                       line         |-> Cell(r, id_vars[2]),
                       station_id   |-> Cell(r, id_vars[3]),
                       station_name |-> Cell(r, id_vars[4]),
                       direction    |-> Cell(r, id_vars[5]),
                       time_slot    |-> value_vars[j],
                       congestion   |-> Cell(r, value_vars[j])]]]

\* pd.to_numeric(..., errors='coerce') then astype('Int64') on one station
\* id: an integer, or "NA" when the value is not a number
to_numeric_Int64(value) ==
    LET x == IF value.t = "str" THEN float_of_str(value.s) ELSE float(value)
    IN  IF x.k = "fin" /\ x.q = 1 THEN PyInt(x.p) ELSE [t |-> "NA"]

\* Series.apply(f) raises what f raises: the first cell on which f raised
FirstRaise(rows) ==
    IF \E i \in 1..Len(rows) : rows[i].congestion.k = "raise"
    THEN rows[CHOOSE i \in 1..Len(rows) :
                 /\ rows[i].congestion.k = "raise"
                 /\ \A h \in 1..(i - 1) : rows[h].congestion.k # "raise"
             ].congestion
    ELSE [k |-> "none"]

\* the reshape that also drops the rows without a reading
transform_wide_to_long_dropna(frame) ==
    LET melted == pd_melt(frame, id_cols, time_cols_of(frame))
    IN  IF melted.k = "raise" THEN melted
        ELSE LET cleaned == [i \in 1..Len(melted.rows) |->
                     [melted.rows[i] EXCEPT
                        !.time_slot  = clean_time_slot(@),
                        !.congestion = clean_congestion(@),
                        !.station_id = to_numeric_Int64(@)]]
             IN  [k |-> "frame",
                  rows |-> SelectSeq(cleaned,
                               LAMBDA row : row.congestion # NaN)]

\* the reshape built from the identifier columns that are present
transform_wide_to_long_partial(frame) ==
    LET present == SelectSeq(id_cols, LAMBDA c : ColPos(frame, c) # 0)
        padded  == [frame EXCEPT
                      !.columns = @ \o SelectSeq(id_cols,
                                     LAMBDA c : ColPos(frame, c) = 0),
                      !.data = [r \in 1..Len(frame.data) |->
                                  frame.data[r] \o
                                  [i \in 1..(5 - Len(present)) |->
                                      [t |-> "None"]]]]
        melted  == pd_melt(padded, id_cols, time_cols_of(frame))
    IN  [k |-> "frame",
         rows |-> [i \in 1..Len(melted.rows) |->
             [melted.rows[i] EXCEPT
                !.time_slot  = clean_time_slot(@),
                !.congestion = clean_congestion(@),
                !.station_id = to_numeric_Int64(@)]]]

\* transform_wide_to_long: a long frame, or the exception that leaves it
transform_wide_to_long(frame) ==
    LET time_cols == time_cols_of(frame)
        melted    == pd_melt(frame, id_cols, time_cols)
    IN  IF melted.k = "raise" THEN melted
        ELSE LET cleaned == [i \in 1..Len(melted.rows) |->
                     [melted.rows[i] EXCEPT
                        !.time_slot  = clean_time_slot(@),
                        !.congestion = clean_congestion(@),
                        !.station_id = to_numeric_Int64(@)]]
             IN  IF FirstRaise(cleaned).k = "raise"
                 THEN FirstRaise(cleaned)
                 ELSE [k |-> "frame", rows |-> cleaned]

\* df_processed[~df_processed['direction'].isin([inner, outer])]
drop_loop_directions(long) ==
    [k |-> "frame",
     rows |-> SelectSeq(long.rows,
                  LAMBDA row : row.direction \notin {DirInner, DirOuter})]


----------------------------------------------------------------------------
(* filter_data and calculate_kpis                                          *)

\* a <= b for Python str: the order of the code points, a proper prefix first
RECURSIVE StrLE(_, _)
StrLE(a, b) ==
    IF a = <<>> THEN TRUE
    ELSE IF b = <<>> THEN FALSE
    ELSE IF a[1] # b[1] THEN a[1] < b[1]
    ELSE StrLE(Tail(a), Tail(b))

\* the selection without the direction predicate
filter_data_any_direction(rows, day_type, line, station, direction, start_time, end_time) ==
    SelectSeq(rows, LAMBDA row :
        /\ row.day_type = day_type
        /\ row.line = line
        /\ row.station_name = station
        /\ StrLE(start_time, row.time_slot)
        /\ StrLE(row.time_slot, end_time))

\* filter_data: the boolean mask keeps the rows, their order and their index
filter_data(rows, day_type, line, station, direction, start_time, end_time) ==
    SelectSeq(rows, LAMBDA row :
        /\ row.day_type = day_type
        /\ row.line = line
        /\ row.station_name = station
        /\ row.direction = direction
        /\ StrLE(start_time, row.time_slot)
        /\ StrLE(row.time_slot, end_time))

\* the rows of one direction only: those of the direction of the first row
\* that matches
filter_for_direction_compare_first(rows, day_type, line, station, start_time, end_time) ==
    LET matching == SelectSeq(rows, LAMBDA row :
                        /\ row.day_type = day_type
                        /\ row.line = line
                        /\ row.station_name = station
                        /\ StrLE(start_time, row.time_slot)
                        /\ StrLE(row.time_slot, end_time))
    IN  SelectSeq(matching,
                  LAMBDA row : row.direction = matching[1].direction)

\* filter_for_direction_compare: filter_data's mask without the direction
filter_for_direction_compare(rows, day_type, line, station, start_time, end_time) ==
    SelectSeq(rows, LAMBDA row :
        /\ row.day_type = day_type
        /\ row.line = line
        /\ row.station_name = station
        /\ StrLE(start_time, row.time_slot)
        /\ StrLE(row.time_slot, end_time))

\* filter_for_line_compare: lines is a tuple, the mask tests membership
filter_for_line_compare(rows, day_type, lines, direction, start_time, end_time) ==
    SelectSeq(rows, LAMBDA row :
        /\ row.day_type = day_type
        /\ \E i \in 1..Len(lines) : row.line = lines[i]
        /\ row.direction = direction
        /\ StrLE(start_time, row.time_slot)
        /\ StrLE(row.time_slot, end_time))

\* a <= b for floats that are not NaN
FloatLE(a, b) ==
    CASE a.k = "inf" -> a.neg \/ (b.k = "inf" /\ ~b.neg)
      [] b.k = "inf" -> ~b.neg
      [] OTHER       -> a.p * b.q <= b.p * a.q

\* a + b for floats: inf + -inf is NaN
FloatAdd(a, b) ==
    CASE a.k = "nan" \/ b.k = "nan" -> NaN
      [] a.k = "inf" /\ b.k = "inf" -> IF a.neg = b.neg THEN a ELSE NaN
      [] a.k = "inf" -> a
      [] b.k = "inf" -> b
      [] OTHER -> Rat(a.p * b.q + b.p * a.q, a.q * b.q)

\* a / n for a float and a positive count
FloatDiv(a, n) == IF a.k = "fin" THEN Rat(a.p, a.q * n) ELSE a

\* DataFrame.dropna(subset=['congestion'])
dropna(rows) == SelectSeq(rows, LAMBDA row : row.congestion # NaN)

\* Series.max() of a column without NaN and with at least one row
RECURSIVE series_max(_)
series_max(rows) ==
    IF Len(rows) = 1 THEN rows[1].congestion
    ELSE LET m == series_max(Tail(rows))
         IN  IF FloatLE(m, rows[1].congestion) THEN rows[1].congestion ELSE m

\* Series.sum()
RECURSIVE series_sum(_)
series_sum(rows) ==
    IF rows = <<>> THEN Fin(0, 0)
    ELSE FloatAdd(rows[1].congestion, series_sum(Tail(rows)))

\* Series.mean()
series_mean(rows) == FloatDiv(series_sum(rows), Len(rows))

\* the index label of the last row that holds the maximum (not what
\* idxmax returns on ties)
idxmax_last(rows) ==
    LET m == series_max(rows)
        i == CHOOSE i \in 1..Len(rows) :
                 /\ rows[i].congestion = m
                 /\ \A h \in (i + 1)..Len(rows) : rows[h].congestion # m
    IN  rows[i].index

\* Series.idxmax(): the index label of the first row that holds the maximum
idxmax(rows) ==
    LET m == series_max(rows)
        i == CHOOSE i \in 1..Len(rows) :
                 /\ rows[i].congestion = m
                 /\ \A h \in 1..(i - 1) : rows[h].congestion # m
    IN  rows[i].index

\* DataFrame.loc[label, 'time_slot'] on a frame whose index labels are
\* distinct: the time_slot of the row with that label
loc_time_slot(rows, label) ==
    rows[CHOOSE i \in 1..Len(rows) : rows[i].index = label].time_slot

\* 'N/A'
NotApplicable == <<78, 47, 65>>

\* calculate_kpis
calculate_kpis(rows) ==
    LET valid_data == dropna(rows)
    IN  IF Len(valid_data) > 0
        THEN [max_congestion |-> series_max(valid_data),
              peak_time      |-> loc_time_slot(valid_data, idxmax(valid_data)),
              avg_congestion |-> series_mean(valid_data)]
        ELSE [max_congestion |-> Fin(0, 0),
              peak_time      |-> NotApplicable,
              avg_congestion |-> Fin(0, 0)]

----------------------------------------------------------------------------
(* The rankings of main(): DataFrame.nlargest and groupby().mean()         *)

\* top_n = 10
top_n == 10

\* the label main() writes into the time_slot column of the 'average'
\* ranking (U+D3C9 U+ADE0)
AverageLabel == <<54217, 44512>>

\* a sorted frame with one more row, placed behind the rows whose value in
\* the column is not smaller: a stable descending order
RECURSIVE InsertDesc(_, _, _)
InsertDesc(sorted, row, column) ==
    IF sorted = <<>> THEN <<row>>
    ELSE IF FloatLE(row[column], sorted[1][column])
         THEN <<sorted[1]>> \o InsertDesc(Tail(sorted), row, column)
         ELSE <<row>> \o sorted

\* the rows in descending order of the column, equal values in their order
RECURSIVE SortDesc(_, _)
SortDesc(rows, column) ==
    IF rows = <<>> THEN <<>>
    ELSE InsertDesc(SortDesc(SubSeq(rows, 1, Len(rows) - 1), column),
                    rows[Len(rows)], column)

\* the first n rows
head(rows, n) ==
    IF n <= 0 THEN <<>>
    ELSE IF n >= Len(rows) THEN rows ELSE SubSeq(rows, 1, n)

\* DataFrame.nlargest(n, column), keep='first' (pandas 2): the rows whose
\* value is not NaN in descending order, first occurrences first, then the
\* rows whose value is NaN in their order, cut to n rows
nlargest(rows, n, column) ==
    head(SortDesc(SelectSeq(rows, LAMBDA row : row[column] # NaN), column)
            \o SelectSeq(rows, LAMBDA row : row[column] = NaN),
         n)

\* the grouping key of a row: (station_name, line, direction)
GroupKey(row) == <<row.station_name, row.line, row.direction>>

\* the order in which groupby(sort=True) lists two keys: the first column
\* that differs decides, by string order
KeyLE(a, b) ==
    IF a[1] # b[1] THEN StrLE(a[1].s, b[1].s)
    ELSE IF a[2] # b[2] THEN StrLE(a[2].s, b[2].s)
    ELSE StrLE(a[3].s, b[3].s)

\* the keys of a set in groupby's order
RECURSIVE SortedKeys(_)
SortedKeys(keys) ==
    IF keys = {} THEN <<>>
    ELSE LET least == CHOOSE a \in keys : \A b \in keys : KeyLE(a, b)
         IN  <<least>> \o SortedKeys(keys \ {least})

\* groupby(['station_name', 'line', 'direction'], as_index=False)
\* ['congestion'].mean(), renamed to avg_congestion: one row per key that
\* occurs in the frame, in the order of the keys (the key columns hold
\* strings: a row with a null key would belong to no group)
groupby_mean(rows) ==
    LET keys == SortedKeys({GroupKey(rows[i]) : i \in 1..Len(rows)})
    IN  [g \in 1..Len(keys) |->
            [station_name   |-> keys[g][1],
             line           |-> keys[g][2],
             direction      |-> keys[g][3],
             avg_congestion |-> series_mean(SelectSeq(rows,
                                   LAMBDA row : GroupKey(row) = keys[g]))]]

\* the 'peak' ranking: the n largest readings of the subset
top_peak(rows, n) ==
    LET top == nlargest(dropna(rows), n, "congestion")
    IN  [i \in 1..Len(top) |->
            [time_slot    |-> top[i].time_slot,
             station_name |-> top[i].station_name,
             line         |-> top[i].line,
             direction    |-> top[i].direction,
             congestion   |-> top[i].congestion]]

\* the 'average' ranking: the n largest group means of the subset
top_average(rows, n) ==
    LET avg_df == groupby_mean(dropna(rows))
        top    == nlargest(avg_df, n, "avg_congestion")
    IN  [i \in 1..Len(top) |->
            [station_name |-> top[i].station_name,
             time_slot    |-> AverageLabel,
             line         |-> top[i].line,
             direction    |-> top[i].direction,
             congestion   |-> top[i].avg_congestion]]

\* the 'specific time' ranking: the n largest readings of one time slot
top_specific(rows, n, specific_time) ==
    top_peak(SelectSeq(rows, LAMBDA row : row.time_slot = specific_time), n)

----------------------------------------------------------------------------
(* get_data_quality_report                                                 *)

\* Series.min() of a column without NaN and with at least one row
RECURSIVE series_min(_)
series_min(rows) ==
    IF Len(rows) = 1 THEN rows[1].congestion
    ELSE LET m == series_min(Tail(rows))
         IN  IF FloatLE(rows[1].congestion, m) THEN rows[1].congestion ELSE m

\* Series.median() of a column without NaN and with at least one row: the
\* middle value in order, or the mean of the two middle values
series_median(rows) ==
    LET sorted == SortDesc(rows, "congestion")
        n      == Len(sorted)
    IN  IF n % 2 = 1 THEN sorted[(n + 1) \div 2].congestion
        ELSE FloatDiv(FloatAdd(sorted[n \div 2].congestion,
                               sorted[n \div 2 + 1].congestion), 2)

\* (column == 0.0).sum()
count_zero(rows) ==
    Cardinality({i \in 1..Len(rows) : rows[i].congestion = Fin(0, 0)})

\* (valid_congestion < 0).sum()
count_negative(rows) ==
    Cardinality({i \in 1..Len(rows) : ~FloatLE(Fin(0, 0), rows[i].congestion)})

\* (valid_congestion > 100).sum()
count_over_100(rows) ==
    Cardinality({i \in 1..Len(rows) : ~FloatLE(rows[i].congestion, Fin(100, 0))})

\* Series.nunique() of a column of strings
nunique(rows, column) == Cardinality({rows[i][column] : i \in 1..Len(rows)})

\* count / total * 100 on numpy integers: 0 / 0 is NaN, with a warning
Percent(count, total) ==
    IF total = 0 THEN NaN ELSE Rat(100 * count, total)

\* Python's None
PyNone == [t |-> "None"]

\* get_data_quality_report
get_data_quality_report(rows) ==
    LET valid_congestion == dropna(rows)
        total_missing    == Len(rows) - Len(valid_congestion)
        zero_count       == count_zero(rows)
        stats ==
            IF Len(valid_congestion) > 0
            THEN [min_congestion    |-> series_min(valid_congestion),
                  max_congestion    |-> series_max(valid_congestion),
                  mean_congestion   |-> series_mean(valid_congestion),
                  median_congestion |-> series_median(valid_congestion),
                  negative_count    |-> count_negative(valid_congestion),
                  over_100_count    |-> count_over_100(valid_congestion)]
            ELSE [min_congestion    |-> PyNone,
                  max_congestion    |-> PyNone,
                  mean_congestion   |-> PyNone,
                  median_congestion |-> PyNone,
                  negative_count    |-> 0,
                  over_100_count    |-> 0]
    IN  [total_records     |-> Len(rows),
         total_missing     |-> total_missing,
         missing_pct       |-> Percent(total_missing, Len(rows)),
         zero_count        |-> zero_count,
         zero_pct          |-> Percent(zero_count, Len(rows)),
         min_congestion    |-> stats.min_congestion,
         max_congestion    |-> stats.max_congestion,
         mean_congestion   |-> stats.mean_congestion,
         median_congestion |-> stats.median_congestion,
         negative_count    |-> stats.negative_count,
         over_100_count    |-> stats.over_100_count,
         unique_stations   |-> nunique(rows, "station_name"),
         unique_lines      |-> nunique(rows, "line"),
         unique_day_types  |-> nunique(rows, "day_type")]

----------------------------------------------------------------------------
(* The input files the runs are checked on.                                *)

\* most rows of a wide table
MaxRows == 2
\* most time-slot columns of a wide table
MaxCols == 2

\* headers of the time-slot columns: "5<si>30<bun>", "12<si>0<bun>",
\* "123<si>5<bun>", "garbage", and "5<si>30<bun>.1", the name pd.read_csv
\* gives to a second column headed "5<si>30<bun>"
Label530 == <<53, ChSi, 51, 48, ChBun>>
Label1200 == <<49, 50, ChSi, 48, ChBun>>
Label123 == <<49, 50, 51, ChSi, 53, ChBun>>
LabelGarbage == <<103, 97, 114, 98, 97, 103, 101>>
Label530Dup == Label530 \o <<ChDot, 49>>

\* the headers a file may have, each cut to its first K columns
Headers ==
    { <<Label530, Label1200, Label123>>,
      <<Label530, Label530Dup, LabelGarbage>>,
      <<LabelGarbage, Label123, Label530>> }

\* category values of the source file: the day type U+D3C9 U+C77C, the
\* lines "1" and "2" U+D638 U+C120, the stations U+C11C U+C6B8 U+C5ED and
\* U+C2DC U+CCAD, the directions U+C0C1 U+D589 (up) and U+D558 U+D589 (down)
Weekday == PyStr(<<54217, 51068>>)
Line1 == PyStr(<<49, 54840, 49440>>)
Line2 == PyStr(<<50, 54840, 49440>>)
StationSeoul == PyStr(<<49436, 50872, 50669>>)
StationCityHall == PyStr(<<49884, 52397>>)
DirUp == PyStr(<<49345, 54665>>)
DirDown == PyStr(<<54616, 54665>>)

\* the identifier values of a raw row:
\* <<day type, line, station id, station name, direction>>.  The third is
\* a second entry of the first station and direction under another id.
RawKeys ==
    { <<Weekday, Line1, PyInt(150), StationSeoul, DirUp>>,
      <<Weekday, Line1, PyInt(150), StationSeoul, DirDown>>,
      <<Weekday, Line1, PyInt(151), StationSeoul, DirUp>>,
      <<Weekday, Line2, PyInt(201), StationCityHall, DirInner>> }

\* the readings of a raw row, column by column (repeated from the start when
\* the table has more columns), as pd.read_csv leaves a text column: " 42.5 "
\* and "inf"; an empty field, read as NaN, and "-inf"; "0" and "0.0"
CellPatterns ==
    { <<PyStr(<<ChSpace, 52, 50, ChDot, 53, ChSpace>>), PyStr(StrInf)>>,
      <<PyFloat(NaN), PyStr(<<ChMinus>> \o StrInf)>>,
      <<PyStr(<<ChZero>>), PyStr(<<ChZero, ChDot, ChZero>>)>> }

RawRow(key, pattern, K) ==
    key \o [j \in 1..K |-> pattern[((j - 1) % Len(pattern)) + 1]]

\* sequences over S of length at most n
SeqsUpTo(S, n) == UNION {[1..m -> S] : m \in 0..n}

\* the rows of a file: at most MaxRows, one per (day type, line, station id,
\* station name, direction)
RowChoices ==
    { rs \in SeqsUpTo(RawKeys \X CellPatterns, MaxRows) :
        \A a, b \in 1..Len(rs) : a # b => rs[a][1] # rs[b][1] }

\* the wide tables: every identifier column, K time-slot columns, and the
\* rows
WideTables ==
    { [columns |-> id_cols \o SubSeq(h, 1, K),
       data    |-> [r \in 1..Len(rs) |-> RawRow(rs[r][1], rs[r][2], K)]] :
      h \in Headers, K \in 0..MaxCols, rs \in RowChoices }

\* the frame without the column at position c
WithoutColumn(frame, c) ==
    LET Cut(q) == SubSeq(q, 1, c - 1) \o SubSeq(q, c + 1, Len(q))
    IN  [columns |-> Cut(frame.columns),
         data    |-> [r \in 1..Len(frame.data) |-> Cut(frame.data[r])]]

\* nothing yet
None == [k |-> "none"]

\* no direct call yet
NoCall == [fn |-> "none"]

----------------------------------------------------------------------------
(* main(): load_and_process_data                                           *)

\* the files that lack one identifier column: a header and at most one row
BrokenTables ==
    { WithoutColumn(w, c) :
      w \in {t \in WideTables : Len(t.data) <= 1}, c \in 1..Len(id_cols) }

\* the file is read: a wide table, or one that lacks an identifier column
Init ==
    /\ pc = "start"
    /\ call = NoCall
    /\ df_raw \in WideTables \cup BrokenTables
    /\ df_long = None
    /\ df = None
    /\ sel = None
    /\ filtered_df = None
    /\ kpis = None
    /\ direction_compare_df = None
    /\ line_compare_df = None
    /\ top_df = None
    /\ file = None
    /\ cache = None
    /\ calls = 0
    /\ heap = None

\* load_and_process_data, step 2: transform_wide_to_long(df_raw).  An
\* exception leaves load_and_process_data and main(): the run ends.
TransformWideToLong ==
    /\ pc = "start"
    /\ df_long' = transform_wide_to_long(df_raw)
    /\ pc' = IF df_long'.k = "raise" THEN "error" ELSE "transformed"
    /\ UNCHANGED <<call, df_raw, df, sel, filtered_df, kpis, views, env>>

\* load_and_process_data, step 3: only the up and down directions are kept
DropLoopDirections ==
    /\ pc = "transformed"
    /\ df' = drop_loop_directions(df_long)
    /\ pc' = "ready"
    /\ UNCHANGED <<call, df_raw, df_long, sel, filtered_df, kpis, views, env>>

\* the values of a column of the kept table: Series.unique()
Unique(rows, column) == {rows[i][column] : i \in 1..Len(rows)}

\* main() builds the sidebar from the kept table; with no row in it there
\* is no time slot and time_slots[0] raises IndexError
NoTimeSlots ==
    /\ pc = "ready"
    /\ Len(df.rows) = 0
    /\ pc' = "error"
    /\ UNCHANGED <<call, df_raw, df_long, df, sel, filtered_df, kpis,
                   views, env>>

\* the sidebar selection and filter_data(df, ...).  Each select box offers
\* the values of its column (the station box those of the selected line) and
\* the slider the time slots of the table.  main() passes the two ends of
\* the slider in order; a pair in the other order is a direct call of
\* filter_data.
FilterData ==
    /\ pc = "ready"
    /\ Len(df.rows) > 0
    /\ \E day_type \in Unique(df.rows, "day_type"),
          line \in Unique(df.rows, "line"),
          direction \in Unique(df.rows, "direction"),
          start_time \in Unique(df.rows, "time_slot"),
          end_time \in Unique(df.rows, "time_slot") :
          \E station \in Unique(SelectSeq(df.rows, LAMBDA r : r.line = line),
                                "station_name") :
             /\ sel' = [day_type |-> day_type, line |-> line,
                        station |-> station, direction |-> direction,
                        start_time |-> start_time, end_time |-> end_time]
             /\ filtered_df' = filter_data(df.rows, day_type, line, station,
                                           direction, start_time, end_time)
    /\ pc' = "filtered"
    /\ UNCHANGED <<call, df_raw, df_long, df, kpis, views, env>>

\* an empty result: main() shows the alternatives and st.stop() ends the run
StopOnEmpty ==
    /\ pc = "filtered"
    /\ Len(filtered_df) = 0
    /\ pc' = "stopped"
    /\ UNCHANGED <<call, df_raw, df_long, df, sel, filtered_df, kpis,
                   views, env>>

\* kpis = calculate_kpis(filtered_df)
CalculateKpis ==
    /\ pc = "filtered"
    /\ Len(filtered_df) > 0
    /\ kpis' = calculate_kpis(filtered_df)
    /\ pc' = "kpis"
    /\ UNCHANGED <<call, df_raw, df_long, df, sel, filtered_df, views, env>>

\* sorted(column.unique().tolist()) of a column of strings
RECURSIVE sorted(_)
sorted(values) ==
    IF values = {} THEN <<>>
    ELSE LET least == CHOOSE a \in values : \A b \in values : StrLE(a.s, b.s)
         IN  <<least>> \o sorted(values \ {least})

\* direction_compare_df = filter_for_direction_compare(df, ...) with the
\* sidebar selection
CompareDirections ==
    /\ pc = "kpis"
    /\ direction_compare_df' =
          filter_for_direction_compare(df.rows, sel.day_type, sel.line,
                                       sel.station, sel.start_time,
                                       sel.end_time)
    /\ pc' = "directions"
    /\ UNCHANGED <<call, df_raw, df_long, df, sel, filtered_df, kpis,
                   line_compare_df, top_df, env>>

\* the lines picked in the multiselect: none, the selected line (the
\* default) or every line of the table; with none picked the section is
\* skipped, otherwise line_compare_df = filter_for_line_compare(df, ...,
\* tuple(compare_lines), ...)
CompareLines ==
    /\ pc = "directions"
    /\ \E compare_lines \in {<<>>, <<sel.line>>,
                             sorted(Unique(df.rows, "line"))} :
          line_compare_df' =
              IF Len(compare_lines) > 0
              THEN filter_for_line_compare(df.rows, sel.day_type,
                                           compare_lines, sel.direction,
                                           sel.start_time, sel.end_time)
              ELSE line_compare_df
    /\ pc' = "lines"
    /\ UNCHANGED <<call, df_raw, df_long, df, sel, filtered_df, kpis,
                   direction_compare_df, top_df, env>>

\* the ranking table by the criterion of the radio button: top_n rows of
\* filtered_df by reading, by group mean, or by reading at the time slot
\* picked among those of the table
TopTable ==
    /\ pc = "lines"
    /\ \/ /\ top_df' = top_peak(filtered_df, top_n)
          /\ call' = [fn |-> "top", top_criteria |-> "peak"]
       \/ /\ top_df' = top_average(filtered_df, top_n)
          /\ call' = [fn |-> "top", top_criteria |-> "average"]
       \/ \E specific_time \in Unique(df.rows, "time_slot") :
             /\ top_df' = top_specific(filtered_df, top_n, specific_time)
             /\ call' = [fn |-> "top", top_criteria |-> "specific"]
    /\ pc' = "top"
    /\ UNCHANGED <<df_raw, df_long, df, sel, filtered_df, kpis,
                   direction_compare_df, line_compare_df, env>>

Next ==
    \/ TransformWideToLong
    \/ DropLoopDirections
    \/ NoTimeSlots
    \/ FilterData
    \/ StopOnEmpty
    \/ CalculateKpis
    \/ CompareDirections
    \/ CompareLines
    \/ TopTable

Spec == Init /\ [][Next]_vars


----------------------------------------------------------------------------
(* Direct calls of the two normalizers.                                    *)

\* the characters of the labels: '0', '5', the two literals and '.'
LabelAlphabet == {ChZero, 53, ChSi, ChBun, ChDot}

\* the characters of the text cells: ' ', '-', '0', '4' and '.'
CellAlphabet == {ChSpace, ChMinus, ChZero, 52, ChDot}

\* the labels handed to clean_time_slot: every string over the label
\* alphabet up to MaxLabelLen characters, and the headers of the tables
TimeStrings ==
    SeqsUpTo(LabelAlphabet, MaxLabelLen)
    \cup {Label530, Label1200, Label123, LabelGarbage, Label530Dup}

\* the values handed to clean_congestion: every string over the cell
\* alphabet up to MaxCellLen characters; " 42.5 ", "N/A", "inf", "Infinity",
\* "-inf", "nan"; ints, among them one beyond the range of a double; floats;
\* bools; None; lists of one and of two elements
CellValues ==
    {PyStr(t) : t \in SeqsUpTo(CellAlphabet, MaxCellLen)}
    \cup {PyStr(<<ChSpace, 52, 50, ChDot, 53, ChSpace>>),
          PyStr(<<78, 47, 65>>),
          PyStr(StrInf),
          PyStr(<<73, 110, 102, 105, 110, 105, 116, 121>>),
          PyStr(<<ChMinus>> \o StrInf),
          PyStr(StrNan)}
    \cup {PyInt(v) : v \in {-3, 0, 150}}
    \cup {[t |-> "bigint"]}
    \cup {PyFloat(x) : x \in {NaN, Inf(FALSE), Inf(TRUE), Fin(425, 1), Fin(0, 0)}}
    \cup {[t |-> "bool", b |-> b] : b \in BOOLEAN}
    \cup {[t |-> "None"]}
    \cup {[t |-> "list", len |-> n] : n \in {1, 2}}

InitNorm ==
    /\ pc = "norm"
    /\ call = NoCall
    /\ df_raw = None
    /\ df_long = None
    /\ df = None
    /\ sel = None
    /\ filtered_df = None
    /\ kpis = None
    /\ direction_compare_df = None
    /\ line_compare_df = None
    /\ top_df = None
    /\ file = None
    /\ cache = None
    /\ calls = 0
    /\ heap = None

\* one call of clean_time_slot
CallCleanTimeSlot ==
    /\ pc = "norm"
    /\ call = NoCall
    /\ \E time_str \in TimeStrings :
          call' = [fn |-> "clean_time_slot", arg |-> time_str,
                   ret |-> clean_time_slot(time_str)]
    /\ UNCHANGED <<pc, df_raw, df_long, df, sel, filtered_df, kpis,
                   views, env>>

\* one call of clean_congestion
CallCleanCongestion ==
    /\ pc = "norm"
    /\ call = NoCall
    /\ \E value \in CellValues :
          call' = [fn |-> "clean_congestion", arg |-> value,
                   ret |-> clean_congestion(value)]
    /\ UNCHANGED <<pc, df_raw, df_long, df, sel, filtered_df, kpis,
                   views, env>>

NextNorm ==
    \/ CallCleanTimeSlot
    \/ CallCleanCongestion

SpecNorm == InitNorm /\ [][NextNorm]_vars


----------------------------------------------------------------------------
(* Vocabulary of the properties.                                           *)

\* the run has gone through transform_wide_to_long
Transformed == pc \in {"transformed", "ready", "filtered", "stopped", "kpis", "error"}

\* filter_data has returned
Filtered == pc \in {"filtered", "stopped", "kpis"}

\* the raw table has the five identifier columns
HasAllIdCols == \A c \in Range(id_cols) : c \in Range(df_raw.columns)

\* R: the rows of the raw table
RawR == Len(df_raw.data)

\* K: its columns other than the five identifier columns
RawK == Len(df_raw.columns) - Len(id_cols)

\* the header of its j-th time-slot column and the cell of row r under it
RawLabel(j) == df_raw.columns[Len(id_cols) + j]
RawCell(r, j) == df_raw.data[r][Len(id_cols) + j]

\* two digits, a colon, two digits
IsHHMM(s) ==
    /\ Len(s) = 5
    /\ \A i \in {1, 2, 4, 5} : IsDigit(s[i])
    /\ s[3] = ChColon

\* the minutes since midnight that an HH:MM string names
Minutes(s) ==
    ((s[1] - ChZero) * 10 + (s[2] - ChZero)) * 60
    + (s[4] - ChZero) * 10 + (s[5] - ChZero)

\* a < b in string order: a is a proper prefix of b, or the first character
\* in which they differ is smaller in a
LexLess(a, b) ==
    \/ Len(a) < Len(b) /\ \A i \in 1..Len(a) : a[i] = b[i]
    \/ \E n \in 1..Len(a) :
          /\ n <= Len(b)
          /\ \A i \in 1..(n - 1) : a[i] = b[i]
          /\ a[n] < b[n]

\* s is <digits><si><digits><bun> and nothing else
IsTimeForm(s) ==
    \E h \in 1..Len(s), m \in 1..Len(s) :
        /\ h + m + 2 = Len(s)
        /\ \A i \in 1..h : IsDigit(s[i])
        /\ s[h + 1] = ChSi
        /\ \A i \in (h + 2)..(h + m + 1) : IsDigit(s[i])
        /\ s[Len(s)] = ChBun

\* a group of digits padded with zeros to width 2
Pad2(t) == IF Len(t) = 1 THEN <<ChZero>> \o t ELSE t

\* the hour group and the minute group of a label of that form, each padded,
\* joined by a colon
PaddedTime(s) ==
    LET h == CHOOSE h \in 1..Len(s) : s[h] = ChSi
    IN  Pad2(SubSeq(s, 1, h - 1)) \o <<ChColon>>
        \o Pad2(SubSeq(s, h + 1, Len(s) - 1))

----------------------------------------------------------------------------
(* Direct calls of the rankings and of get_data_quality_report on subsets  *)
(* of a long table that span several stations, lines and directions.       *)

\* most (station, line, direction) groups of a subset
MaxGroups == 5

\* the groups, in an order that is not the order of their keys
RankKeys ==
    << <<StationSeoul, Line1, DirUp>>,
       <<StationCityHall, Line2, DirDown>>,
       <<StationSeoul, Line1, DirDown>>,
       <<StationCityHall, Line1, DirUp>>,
       <<StationSeoul, Line2, DirUp>>,
       <<StationCityHall, Line2, DirUp>>,
       <<StationSeoul, Line2, DirDown>>,
       <<StationCityHall, Line1, DirDown>> >>

\* the time slots of the readings of a group: "05:30", "12:00", "12:30"
RankSlots ==
    << <<ChZero, 53, ChColon, 51, ChZero>>,
       <<49, 50, ChColon, ChZero, ChZero>>,
       <<49, 50, ChColon, 51, ChZero>> >>

\* the readings of group g: none (the group is absent), one missing, one
\* reading 10g, a missing with a negative reading and one above 100 (of
\* mean 60 - 5g), or both infinities (as the cells "inf" and "-inf" leave
\* them)
Readings(g) ==
    { <<>>,
      <<NaN>>,
      <<Rat(10 * g, 1)>>,
      <<NaN, Rat(-10 * g, 1), Rat(120, 1)>>,
      <<Inf(FALSE), Inf(TRUE)>> }

\* the rows of group g with the given readings, numbered from first
GroupRows(g, readings, first) ==
    [i \in 1..Len(readings) |->
        [index        |-> first + i - 1,
         day_type     |-> Weekday,
         line         |-> RankKeys[g][2],
         station_id   |-> PyInt(150 + g),
         station_name |-> RankKeys[g][1],
         direction    |-> RankKeys[g][3],
         time_slot    |-> RankSlots[i],
         congestion   |-> readings[i]]]

\* the subsets of at most G groups: the rows of the groups one after another
RECURSIVE Subsets(_)
Subsets(G) ==
    IF G = 0 THEN {<<>>}
    ELSE {rows \o GroupRows(G, readings, Len(rows)) :
             rows \in Subsets(G - 1), readings \in Readings(G)}

\* the ranking sizes called with
RankSizes == {1, 3, top_n}

InitQuery ==
    /\ pc = "query"
    /\ call = NoCall
    /\ df_raw = None
    /\ df_long = None
    /\ df = None
    /\ sel = None
    /\ filtered_df \in Subsets(MaxGroups)
    /\ kpis = None
    /\ direction_compare_df = None
    /\ line_compare_df = None
    /\ top_df = None
    /\ file = None
    /\ cache = None
    /\ calls = 0
    /\ heap = None

\* one evaluation of the 'average' ranking with n rows asked for
CallTopAverage ==
    /\ pc = "query"
    /\ call = NoCall
    /\ \E n \in RankSizes :
          call' = [fn |-> "top_average", arg |-> n,
                   ret |-> top_average(filtered_df, n)]
    /\ UNCHANGED <<pc, df_raw, df_long, df, sel, filtered_df, kpis,
                   views, env>>

\* one call of get_data_quality_report on the subset
CallQualityReport ==
    /\ pc = "query"
    /\ call = NoCall
    /\ call' = [fn |-> "get_data_quality_report",
                ret |-> get_data_quality_report(filtered_df)]
    /\ UNCHANGED <<pc, df_raw, df_long, df, sel, filtered_df, kpis,
                   views, env>>

NextQuery ==
    \/ CallTopAverage
    \/ CallQualityReport

SpecQuery == InitQuery /\ [][NextQuery]_vars

----------------------------------------------------------------------------
(* The memoized functions.  @st.cache_data keeps, per decorated function,  *)
(* the result of every call under a key made of the values of its          *)
(* arguments (a DataFrame by its content), and answers a later call with   *)
(* an equal key from the table without running the body.                   *)

\* most steps of a run on the cache
MaxCalls == 4

\* data_file, the only path main() loads
data_file ==
    PyStr(<<49436, 50872, 44368, 53685, 44277, 49324, 95, 51648, 54616,
            52384, 54844, 51105, 46020, 51221, 48372, 95, 50, 48, 50, 53,
            48, 57, 51, 48, 46, 99, 115, 118>>)

\* two contents of the file: the same stations and time slot with other
\* readings
FileTables ==
    { [columns |-> id_cols \o <<Label530>>,
       data |-> << <<Weekday, Line1, PyInt(150), StationSeoul, DirUp, c[1]>>,
                   <<Weekday, Line1, PyInt(150), StationSeoul, DirDown, c[2]>>,
                   <<Weekday, Line2, PyInt(201), StationCityHall, DirUp, c[2]>> >>] :
      c \in CellPatterns }

\* the memo table of a function: a set of [args, ret], one per key
Hit(entries, args) == \E e \in entries : e.args = args
Cached(entries, args) == (CHOOSE e \in entries : e.args = args).ret

\* the result of a decorated function and its memo table after a call:
\* the stored result on a hit, else the computed value, which is stored
Memo(entries, args, value) ==
    IF Hit(entries, args)
    THEN [ret |-> Cached(entries, args), hit |-> TRUE, entries |-> entries]
    ELSE [ret |-> value, hit |-> FALSE,
          entries |-> entries \cup {[args |-> args, ret |-> value]}]

InitCache ==
    /\ pc = "cache"
    /\ call = NoCall
    /\ df_raw = None
    /\ df_long = None
    /\ df = None
    /\ sel = None
    /\ filtered_df = None
    /\ kpis = None
    /\ direction_compare_df = None
    /\ line_compare_df = None
    /\ top_df = None
    /\ file \in FileTables
    /\ cache = [load_raw_data |-> {}, load_and_process_data |-> {},
                filter_data |-> {}, filter_for_direction_compare |-> {},
                filter_for_line_compare |-> {}, calculate_kpis |-> {}]
    /\ calls = 0
    /\ heap = None

\* between two calls, the file is rewritten with another content
WriteFile ==
    /\ pc = "cache"
    /\ calls < MaxCalls
    /\ file' \in FileTables \ {file}
    /\ call' = NoCall
    /\ calls' = calls + 1
    /\ UNCHANGED <<pc, df_raw, df_long, df, sel, filtered_df, kpis, views,
                   cache, heap>>

\* load_raw_data(data_file): the body reads the file
CachedLoadRawData ==
    /\ pc = "cache"
    /\ calls < MaxCalls
    /\ \E m \in {Memo(cache.load_raw_data, <<data_file>>, file)} :
          /\ call' = [fn |-> "load_raw_data", args |-> <<data_file>>,
                      ret |-> m.ret, hit |-> m.hit]
          /\ cache' = [cache EXCEPT !.load_raw_data = m.entries]
          /\ df_raw' = m.ret
    /\ calls' = calls + 1
    /\ UNCHANGED <<pc, df_long, df, sel, filtered_df, kpis, views,
                   file, heap>>

\* load_and_process_data(data_file): the body, run on a miss only, calls
\* load_raw_data, itself memoized, reshapes and drops the loop directions
CachedLoadAndProcessData ==
    /\ pc = "cache"
    /\ calls < MaxCalls
    /\ \E inner \in {Memo(cache.load_raw_data, <<data_file>>, file)} :
       \E m \in {Memo(cache.load_and_process_data, <<data_file>>,
                      drop_loop_directions(
                          transform_wide_to_long(inner.ret)))} :
          /\ call' = [fn |-> "load_and_process_data",
                      args |-> <<data_file>>, ret |-> m.ret, hit |-> m.hit]
          /\ cache' = [cache EXCEPT
                          !.load_raw_data =
                              IF m.hit THEN @ ELSE inner.entries,
                          !.load_and_process_data = m.entries]
          /\ df' = m.ret
    /\ calls' = calls + 1
    /\ UNCHANGED <<pc, df_raw, df_long, sel, filtered_df, kpis, views,
                   file, heap>>

\* filter_data(df, ...) on the table main() holds
CachedFilterData ==
    /\ pc = "cache"
    /\ calls < MaxCalls
    /\ df # None
    /\ \E direction \in {DirUp, DirDown} :
       \E args \in {<<df, Weekday, Line1, StationSeoul, direction,
                      clean_time_slot(Label530),
                      clean_time_slot(Label530)>>} :
       \E m \in {Memo(cache.filter_data, args,
                      filter_data(args[1].rows, args[2], args[3], args[4],
                                  args[5], args[6], args[7]))} :
          /\ call' = [fn |-> "filter_data", args |-> args,
                      ret |-> m.ret, hit |-> m.hit]
          /\ cache' = [cache EXCEPT !.filter_data = m.entries]
          /\ filtered_df' = m.ret
    /\ calls' = calls + 1
    /\ UNCHANGED <<pc, df_raw, df_long, df, sel, kpis, views,
                   file, heap>>

\* filter_for_direction_compare(df, ...)
CachedFilterForDirectionCompare ==
    /\ pc = "cache"
    /\ calls < MaxCalls
    /\ df # None
    /\ \E args \in {<<df, Weekday, Line1, StationSeoul,
                      clean_time_slot(Label530),
                      clean_time_slot(Label530)>>} :
       \E m \in {Memo(cache.filter_for_direction_compare, args,
                      filter_for_direction_compare(args[1].rows, args[2],
                          args[3], args[4], args[5], args[6]))} :
          /\ call' = [fn |-> "filter_for_direction_compare", args |-> args,
                      ret |-> m.ret, hit |-> m.hit]
          /\ cache' = [cache EXCEPT
                          !.filter_for_direction_compare = m.entries]
          /\ direction_compare_df' = m.ret
    /\ calls' = calls + 1
    /\ UNCHANGED <<pc, df_raw, df_long, df, sel, filtered_df, kpis,
                   line_compare_df, top_df,
                   file, heap>>

\* filter_for_line_compare(df, ..., tuple(compare_lines), ...)
CachedFilterForLineCompare ==
    /\ pc = "cache"
    /\ calls < MaxCalls
    /\ df # None
    /\ \E lines \in {<<Line1>>, <<Line1, Line2>>, <<Line2, Line1>>} :
       \E args \in {<<df, Weekday, lines, DirUp,
                      clean_time_slot(Label530),
                      clean_time_slot(Label530)>>} :
       \E m \in {Memo(cache.filter_for_line_compare, args,
                      filter_for_line_compare(args[1].rows, args[2],
                          args[3], args[4], args[5], args[6]))} :
          /\ call' = [fn |-> "filter_for_line_compare", args |-> args,
                      ret |-> m.ret, hit |-> m.hit]
          /\ cache' = [cache EXCEPT
                          !.filter_for_line_compare = m.entries]
          /\ line_compare_df' = m.ret
    /\ calls' = calls + 1
    /\ UNCHANGED <<pc, df_raw, df_long, df, sel, filtered_df, kpis,
                   direction_compare_df, top_df,
                   file, heap>>

\* calculate_kpis(filtered_df) on the subset main() holds
CachedCalculateKpis ==
    /\ pc = "cache"
    /\ calls < MaxCalls
    /\ cache.filter_data # {}
    /\ \E m \in {Memo(cache.calculate_kpis, <<filtered_df>>,
                      calculate_kpis(filtered_df))} :
          /\ call' = [fn |-> "calculate_kpis", args |-> <<filtered_df>>,
                      ret |-> m.ret, hit |-> m.hit]
          /\ cache' = [cache EXCEPT !.calculate_kpis = m.entries]
          /\ kpis' = m.ret
    /\ calls' = calls + 1
    /\ UNCHANGED <<pc, df_raw, df_long, df, sel, filtered_df, views,
                   file, heap>>

NextCache ==
    \/ WriteFile
    \/ CachedLoadRawData
    \/ CachedLoadAndProcessData
    \/ CachedFilterData
    \/ CachedFilterForDirectionCompare
    \/ CachedFilterForLineCompare
    \/ CachedCalculateKpis

SpecCache == InitCache /\ [][NextCache]_vars

----------------------------------------------------------------------------
(* The DataFrame objects.  A variable of main() holds a reference to an    *)
(* object; an operation either builds a new object or changes one in       *)
(* place.  Here df, filtered_df, direction_compare_df, line_compare_df and *)
(* top_df are references into heap, 0 when not yet assigned, and df_long   *)
(* keeps the rows of the long table as load_and_process_data returned      *)
(* them.                                                                   *)

\* most operations of a run on the objects
MaxOps == 3

\* CONGESTION_LEVELS: (min, max, emoji) of the four levels, the last one
\* without upper limit
CONGESTION_LEVELS ==
    << <<Rat(0, 1), Rat(30, 1), 128309>>,
       <<Rat(30, 1), Rat(60, 1), 128994>>,
       <<Rat(60, 1), Rat(100, 1), 128993>>,
       <<Rat(100, 1), Inf(FALSE), 128308>> >>

\* the emoji of no level
EmojiWhite == 9898

\* get_congestion_emoji: the emoji of the first level with
\* min <= congestion < max, the white one for NaN and for no level
get_congestion_emoji(congestion) ==
    IF congestion = NaN THEN EmojiWhite
    ELSE LET fits == {i \in 1..Len(CONGESTION_LEVELS) :
                         /\ FloatLE(CONGESTION_LEVELS[i][1], congestion)
                         /\ ~FloatLE(CONGESTION_LEVELS[i][2], congestion)}
         IN  IF fits = {} THEN EmojiWhite
             ELSE CONGESTION_LEVELS[CHOOSE i \in fits :
                                        \A h \in fits : i <= h][3]

\* DataFrame.copy() of a selection of the object ref: a new object that
\* holds the selected rows, and the heap with it
copy_inplace(h, ref, rows) ==
    [heap |-> [h EXCEPT ![ref] = rows], ref |-> ref]

copy(h, ref, rows) ==
    [heap |-> Append(h, rows), ref |-> Len(h) + 1]

\* top_df.insert(0, rank column, range(1, len + 1)) and the assignment of
\* the grade column, both in place on the object
insert_rank(rows) ==
    [i \in 1..Len(rows) |->
        [rank         |-> i,
         time_slot    |-> rows[i].time_slot,
         station_name |-> rows[i].station_name,
         line         |-> rows[i].line,
         direction    |-> rows[i].direction,
         congestion   |-> rows[i].congestion,
         grade        |-> get_congestion_emoji(rows[i].congestion)]]

\* an assignment to a column of an object in place, as main() does on
\* top_df: every reading of the object becomes the value
set_column(rows, value) ==
    [i \in 1..Len(rows) |-> [rows[i] EXCEPT !.congestion = value]]

\* the long tables of the data files
LongTables ==
    {drop_loop_directions(transform_wide_to_long(t)) : t \in FileTables}

InitFrame ==
    /\ pc = "frame"
    /\ call = NoCall
    /\ df_raw = None
    /\ df_long \in LongTables
    /\ df = 1
    /\ sel = None
    /\ filtered_df = 0
    /\ kpis = None
    /\ direction_compare_df = 0
    /\ line_compare_df = 0
    /\ top_df = 0
    /\ file = None
    /\ cache = None
    /\ calls = 0
    /\ heap = <<df_long.rows>>

\* filter_data(df, ...): the selection, copied
FrameFilterData ==
    /\ pc = "frame"
    /\ calls < MaxOps
    /\ \E direction \in {DirUp, DirDown} :
       \E made \in {copy(heap, df,
                         filter_data(heap[df], Weekday, Line1, StationSeoul,
                                     direction, clean_time_slot(Label530),
                                     clean_time_slot(Label530)))} :
          /\ heap' = made.heap
          /\ filtered_df' = made.ref
    /\ call' = [fn |-> "filter_data"]
    /\ calls' = calls + 1
    /\ UNCHANGED <<pc, df_raw, df_long, df, sel, kpis, views, file, cache>>

\* filter_for_direction_compare(df, ...): the selection, copied
FrameFilterForDirectionCompare ==
    /\ pc = "frame"
    /\ calls < MaxOps
    /\ \E made \in {copy(heap, df,
                         filter_for_direction_compare(heap[df], Weekday,
                             Line1, StationSeoul, clean_time_slot(Label530),
                             clean_time_slot(Label530)))} :
          /\ heap' = made.heap
          /\ direction_compare_df' = made.ref
    /\ call' = [fn |-> "filter_for_direction_compare"]
    /\ calls' = calls + 1
    /\ UNCHANGED <<pc, df_raw, df_long, df, sel, filtered_df, kpis,
                   line_compare_df, top_df, file, cache>>

\* filter_for_line_compare(df, ...): the selection, copied
FrameFilterForLineCompare ==
    /\ pc = "frame"
    /\ calls < MaxOps
    /\ \E lines \in {<<Line1>>, <<Line1, Line2>>} :
       \E made \in {copy(heap, df,
                         filter_for_line_compare(heap[df], Weekday, lines,
                             DirUp, clean_time_slot(Label530),
                             clean_time_slot(Label530)))} :
          /\ heap' = made.heap
          /\ line_compare_df' = made.ref
    /\ call' = [fn |-> "filter_for_line_compare"]
    /\ calls' = calls + 1
    /\ UNCHANGED <<pc, df_raw, df_long, df, sel, filtered_df, kpis,
                   direction_compare_df, top_df, file, cache>>

\* calculate_kpis(filtered_df) and get_data_quality_report(df): both read
\* their argument and build their result apart from it
FrameCalculateKpis ==
    /\ pc = "frame"
    /\ calls < MaxOps
    /\ filtered_df # 0
    /\ kpis' = calculate_kpis(heap[filtered_df])
    /\ call' = [fn |-> "calculate_kpis"]
    /\ calls' = calls + 1
    /\ UNCHANGED <<pc, df_raw, df_long, df, sel, filtered_df, views, file,
                   cache, heap>>

FrameQualityReport ==
    /\ pc = "frame"
    /\ calls < MaxOps
    /\ call' = [fn |-> "get_data_quality_report",
                ret |-> get_data_quality_report(heap[df])]
    /\ calls' = calls + 1
    /\ UNCHANGED <<pc, df_raw, df_long, df, sel, filtered_df, kpis, views,
                   file, cache, heap>>

\* the ranking of main(): a new object from filtered_df, which then gets
\* its rank and grade columns in place when it has a row
FrameTopTable ==
    /\ pc = "frame"
    /\ calls < MaxOps
    /\ filtered_df # 0
    /\ \E top \in {top_peak(heap[filtered_df], top_n),
                   top_average(heap[filtered_df], top_n),
                   top_specific(heap[filtered_df], top_n,
                                clean_time_slot(Label530))} :
          /\ heap' = Append(heap, IF Len(top) = 0 THEN top
                                  ELSE insert_rank(top))
          /\ top_df' = Len(heap) + 1
    /\ call' = [fn |-> "top"]
    /\ calls' = calls + 1
    /\ UNCHANGED <<pc, df_raw, df_long, df, sel, filtered_df, kpis,
                   direction_compare_df, line_compare_df, file, cache>>

\* the caller changes the table a filter returned, in place
FrameModifyCopy ==
    /\ pc = "frame"
    /\ calls < MaxOps
    /\ \E ref \in {filtered_df, direction_compare_df, line_compare_df}
                      \ {0} :
          /\ Len(heap[ref]) > 0
          /\ heap' = [heap EXCEPT ![ref] = set_column(@, NaN)]
    /\ call' = [fn |-> "modify"]
    /\ calls' = calls + 1
    /\ UNCHANGED <<pc, df_raw, df_long, df, sel, filtered_df, kpis, views,
                   file, cache>>

NextFrame ==
    \/ FrameFilterData
    \/ FrameFilterForDirectionCompare
    \/ FrameFilterForLineCompare
    \/ FrameCalculateKpis
    \/ FrameQualityReport
    \/ FrameTopTable
    \/ FrameModifyCopy

SpecFrame == InitFrame /\ [][NextFrame]_vars

----------------------------------------------------------------------------
(* load_raw_data and the encodings.  The file is a sequence of bytes;      *)
(* pd.read_csv(file_path, encoding=...) decodes all of it before it gives  *)
(* a table, and raises UnicodeDecodeError at the first byte the encoding   *)
(* has no character for.                                                   *)

\* longest file
MaxBytes == 3

\* the bytes of the files: 'A', and four bytes above 0x7F that are a lead
\* or a trail byte in CP949 and a lead (0xC2) or a continuation in UTF-8
Bytes == {65, 194, 161, 176, 128}

UnicodeDecodeError == [k |-> "raise", exc |-> "UnicodeDecodeError"]

\* bytes.decode('utf-8'): a byte below 0x80 is its character, a lead
\* 0xC2..0xDF takes one continuation 0x80..0xBF; every other byte at the
\* place of a lead is an error (the leads of the three and four byte forms
\* are not among Bytes)
RECURSIVE decode_utf8(_)
decode_utf8(b) ==
    IF b = <<>> THEN [k |-> "text", s |-> <<>>]
    ELSE IF b[1] < 128
    THEN LET rest == decode_utf8(Tail(b))
         IN  IF rest.k = "raise" THEN rest
             ELSE [k |-> "text", s |-> <<b[1]>> \o rest.s]
    ELSE IF /\ b[1] >= 194
            /\ b[1] <= 223
            /\ Len(b) >= 2
            /\ b[2] >= 128
            /\ b[2] <= 191
    THEN LET rest == decode_utf8(Tail(Tail(b)))
         IN  IF rest.k = "raise" THEN rest
             ELSE [k |-> "text",
                   s |-> <<(b[1] - 192) * 64 + (b[2] - 128)>> \o rest.s]
    ELSE UnicodeDecodeError

\* the part of the CP949 table on Bytes: the character of each pair of a
\* lead and a trail byte that has one
cp949_table ==
    (<<194, 65>> :> 54730) @@ (<<194, 194>> :> 51807) @@
    (<<194, 161>> :> 51669) @@ (<<194, 176>> :> 51704) @@
    (<<161, 65>> :> 51365) @@ (<<161, 194>> :> 8804) @@
    (<<161, 161>> :> 12288) @@ (<<161, 176>> :> 8220) @@
    (<<176, 65>> :> 52890) @@ (<<176, 194>> :> 44116) @@
    (<<176, 161>> :> 44032) @@ (<<176, 176>> :> 44057)

\* bytes.decode('cp949'): a byte below 0x80 is its character, any other
\* byte is a lead that needs a trail byte it has a character with
RECURSIVE decode_cp949(_)
decode_cp949(b) ==
    IF b = <<>> THEN [k |-> "text", s |-> <<>>]
    ELSE IF b[1] < 128
    THEN LET rest == decode_cp949(Tail(b))
         IN  IF rest.k = "raise" THEN rest
             ELSE [k |-> "text", s |-> <<b[1]>> \o rest.s]
    ELSE IF Len(b) >= 2 /\ <<b[1], b[2]>> \in DOMAIN cp949_table
    THEN LET rest == decode_cp949(Tail(Tail(b)))
         IN  IF rest.k = "raise" THEN rest
             ELSE [k |-> "text",
                   s |-> <<cp949_table[<<b[1], b[2]>>]>> \o rest.s]
    ELSE UnicodeDecodeError

\* pd.read_csv(file_path, encoding=encoding): the table of the decoded
\* text, kept as the text; a text without a header line has no columns to
\* parse
read_csv(b, encoding) ==
    LET text == IF encoding = "utf-8" THEN decode_utf8(b)
                ELSE decode_cp949(b)
    IN  IF text.k = "text" /\ text.s = <<>>
        THEN [k |-> "raise", exc |-> "EmptyDataError"]
        ELSE text

\* load_raw_data: the encodings tried, in order, and the table returned or
\* the exception that leaves the function
load_raw_data_cp949_first(b) ==
    LET first == read_csv(b, "cp949")
    IN  IF first = UnicodeDecodeError
        THEN [tried |-> <<"cp949", "utf-8">>, ret |-> read_csv(b, "utf-8")]
        ELSE [tried |-> <<"cp949">>, ret |-> first]

load_raw_data(b) ==
    LET first == read_csv(b, "utf-8")
    IN  IF first = UnicodeDecodeError
        THEN [tried |-> <<"utf-8", "cp949">>, ret |-> read_csv(b, "cp949")]
        ELSE [tried |-> <<"utf-8">>, ret |-> first]

\* the byte sequences of a length up to n
RECURSIVE ByteSeqs(_)
ByteSeqs(n) ==
    IF n = 0 THEN {<<>>}
    ELSE LET shorter == ByteSeqs(n - 1)
         IN  shorter \cup {Append(q, c) : q \in shorter, c \in Bytes}

\* main() starts with the data file absent, or present with some bytes
InitLoad ==
    /\ pc = "main"
    /\ call = NoCall
    /\ df_raw = None
    /\ df_long = None
    /\ df = None
    /\ sel = None
    /\ filtered_df = None
    /\ kpis = None
    /\ direction_compare_df = None
    /\ line_compare_df = None
    /\ top_df = None
    /\ file \in {[exists |-> FALSE, bytes |-> <<>>]}
                   \cup {[exists |-> TRUE, bytes |-> b] :
                         b \in ByteSeqs(MaxBytes)}
    /\ cache = None
    /\ calls = 0
    /\ heap = None

\* main(): without the file, a message and return
FileMissing ==
    /\ pc = "main"
    /\ ~file.exists
    /\ pc' = "returned"
    /\ UNCHANGED <<call, df_raw, df_long, df, sel, filtered_df, kpis, views,
                   env>>

\* main(): load_and_process_data(data_file) calls load_raw_data; its
\* exception is caught nowhere and ends the run
LoadRawData ==
    /\ pc = "main"
    /\ file.exists
    /\ \E r \in {load_raw_data(file.bytes)} :
          /\ call' = [fn |-> "load_raw_data", tried |-> r.tried,
                      ret |-> r.ret]
          /\ df_raw' = IF r.ret.k = "raise" THEN None ELSE r.ret
          /\ pc' = IF r.ret.k = "raise" THEN "error" ELSE "loaded"
    /\ UNCHANGED <<df_long, df, sel, filtered_df, kpis, views, env>>

\* main() goes on to the sidebar and the charts with the table it got
RenderDashboard ==
    /\ pc = "loaded"
    /\ pc' = "dashboard"
    /\ UNCHANGED <<call, df_raw, df_long, df, sel, filtered_df, kpis, views,
                   env>>

NextLoad ==
    \/ FileMissing
    \/ LoadRawData
    \/ RenderDashboard

SpecLoad == InitLoad /\ [][NextLoad]_vars

----------------------------------------------------------------------------
(* The properties.                                                         *)

C2_RoundTrip ==
    pc = "transformed" =>
        \A r \in 1..RawR, j \in 1..RawK :
            LET slot == clean_time_slot(RawLabel(j))
                back == filter_data(df_long.rows,
                                    df_raw.data[r][1], df_raw.data[r][2],
                                    df_raw.data[r][4], df_raw.data[r][5],
                                    slot, slot)
            IN  /\ Len(back) = 1
                /\ back[1].congestion = clean_congestion(RawCell(r, j))

\* C3: clean_time_slot returns the padded hour and minute joined by a colon
\* for a label of the form <digits><si><digits><bun>, and returns every
\* other label unchanged.
C3_TimeFormOnly ==
    (pc = "norm" /\ call.fn = "clean_time_slot") =>
        call.ret = IF IsTimeForm(call.arg)
                   THEN PaddedTime(call.arg) ELSE call.arg

\* C4: every time_slot of the long table is HH:MM, exactly five characters,
\* or is the header of its column unchanged.
C4_SlotShape ==
    pc = "transformed" =>
        \A r \in 1..RawR, j \in 1..RawK :
            LET slot == df_long.rows[(j - 1) * RawR + r].time_slot
            IN  IsHHMM(slot) \/ slot = RawLabel(j)

\* C5: clean_congestion raises for no input; None and NaN, a string that is
\* empty once stripped and a value that float() rejects give the missing
\* value; every other value gives its number, whatever its size or sign.
C5_NeverRaises ==
    (pc = "norm" /\ call.fn = "clean_congestion") =>
        LET value == call.arg
            blank == value.t = "str" /\ strip(value.s) = <<>>
        IN  /\ call.ret.k # "raise"
            /\ value.t = "None" => call.ret = NaN
            /\ (value.t = "float" /\ value.x = NaN) => call.ret = NaN
            /\ blank => call.ret = NaN
            /\ (value.t # "list" /\ float(value).k = "raise")
                  => call.ret = NaN
            /\ (~blank /\ value.t \in {"str", "int", "float", "bool"}
                /\ float(value).k \in {"fin", "inf"})
                  => call.ret = float(value)
            /\ value = PyStr(<<ChSpace, 52, 50, ChDot, 53, ChSpace>>)
                  => call.ret = Rat(85, 2)
            /\ value = PyInt(-3) => call.ret = Rat(-3, 1)

\* C6: every congestion of the long table is a finite number or the missing
\* value; a raw zero stays the number 0 and a missing cell stays missing.
C6_FiniteOrMissing ==
    pc = "transformed" =>
        \A r \in 1..RawR, j \in 1..RawK :
            LET congestion == df_long.rows[(j - 1) * RawR + r].congestion
            IN  /\ congestion.k \in {"fin", "nan"}
                /\ RawCell(r, j) \in {PyInt(0), PyStr(<<ChZero>>),
                                     PyStr(<<ChZero, ChDot, ChZero>>)}
                      => congestion = Rat(0, 1)
                /\ RawCell(r, j) = PyFloat(NaN) => congestion = NaN

\* C7: when one of the five identifier columns is absent from the raw table,
\* transform_wide_to_long raises and the run ends: no long table exists,
\* none is kept, nothing is filtered.
C7_SchemaError ==
    (Transformed /\ ~HasAllIdCols) =>
        /\ pc = "error"
        /\ df_long.k = "raise"
        /\ df = None
        /\ filtered_df = None

\* C7's case: a file without one identifier column, with a row and a
\* time-slot column that a partial transform would have reshaped
C7_Witness ==
    /\ pc = "error"
    /\ ~HasAllIdCols
    /\ Len(df_raw.data) = 1
    /\ Len(df_raw.columns) >= Len(id_cols)

\* C8: filter_data returns exactly the rows of the table whose day_type,
\* line, station_name and direction equal the arguments and whose time_slot
\* lies between start_time and end_time in string order, in their original
\* order; when every time_slot is HH:MM the rows kept are those whose time
\* of day lies between the two times; with start_time > end_time the result
\* is empty.
C8_FilterExact ==
    Filtered =>
        LET KeyMatch(row) ==
                /\ row.day_type = sel.day_type
                /\ row.line = sel.line
                /\ row.station_name = sel.station
                /\ row.direction = sel.direction
            InRange(row) ==
                /\ ~LexLess(row.time_slot, sel.start_time)
                /\ ~LexLess(sel.end_time, row.time_slot)
            Kept(row) == \E i \in 1..Len(filtered_df) : filtered_df[i] = row
        IN  /\ \A i \in 1..Len(filtered_df) :
                  /\ \E h \in 1..Len(df.rows) : df.rows[h] = filtered_df[i]
                  /\ KeyMatch(filtered_df[i])
                  /\ InRange(filtered_df[i])
            /\ \A h \in 1..Len(df.rows) :
                  (KeyMatch(df.rows[h]) /\ InRange(df.rows[h]))
                      => Kept(df.rows[h])
            /\ \A i, h \in 1..Len(filtered_df) :
                  i < h => filtered_df[i].index < filtered_df[h].index
            /\ (\A h \in 1..Len(df.rows) : IsHHMM(df.rows[h].time_slot))
                  => \A h \in 1..Len(df.rows) :
                        KeyMatch(df.rows[h]) =>
                            (Kept(df.rows[h]) <=>
                                /\ Minutes(sel.start_time)
                                      <= Minutes(df.rows[h].time_slot)
                                /\ Minutes(df.rows[h].time_slot)
                                      <= Minutes(sel.end_time))
            /\ LexLess(sel.end_time, sel.start_time) => filtered_df = <<>>

\* C8's case: a table of HH:MM slots, a proper range, and a result that
\* keeps some rows and leaves others out
C8_Witness ==
    /\ pc = "filtered"
    /\ \A h \in 1..Len(df.rows) : IsHHMM(df.rows[h].time_slot)
    /\ LexLess(sel.start_time, sel.end_time)
    /\ Len(filtered_df) >= 2
    /\ Len(filtered_df) < Len(df.rows)

\* C9: calculate_kpis on a subset without a reading returns 0.0, 'N/A' and
\* 0.0, and on no subset is max_congestion or avg_congestion NaN.
C9_KpiFallback ==
    pc = "kpis" =>
        /\ (\A i \in 1..Len(filtered_df) : filtered_df[i].congestion = NaN)
              => kpis = [max_congestion |-> Rat(0, 1),
                         peak_time      |-> <<78, 47, 65>>,
                         avg_congestion |-> Rat(0, 1)]
        /\ kpis.max_congestion # NaN
        /\ kpis.avg_congestion # NaN

\* C10: on a subset with a reading, max_congestion is the largest reading
\* and peak_time is the time_slot of the first row of the subset, in its
\* order, that holds it; the rows without a reading play no part.
C10_PeakFirst ==
    pc = "kpis" =>
        LET Valid == {i \in 1..Len(filtered_df) :
                         filtered_df[i].congestion # NaN}
            AtMax == {i \in Valid :
                         filtered_df[i].congestion = kpis.max_congestion}
        IN  Valid # {} =>
                /\ AtMax # {}
                /\ \A i \in Valid :
                      FloatLE(filtered_df[i].congestion, kpis.max_congestion)
                /\ \E i \in AtMax :
                      /\ \A h \in AtMax : i <= h
                      /\ kpis.peak_time = filtered_df[i].time_slot

\* C10's case: the maximum is held by two rows of different time slots, and
\* the subset has a row without a reading
C10_Witness ==
    /\ pc = "kpis"
    /\ \E i, h \in 1..Len(filtered_df) :
          /\ i < h
          /\ filtered_df[i].congestion = kpis.max_congestion
          /\ filtered_df[h].congestion = kpis.max_congestion
          /\ filtered_df[i].time_slot # filtered_df[h].time_slot
    /\ \E i \in 1..Len(filtered_df) : filtered_df[i].congestion = NaN


\* the groups of a subset that have a reading, and the mean of the readings
\* of a group
RankedGroups(rows) ==
    {GroupKey(rows[i]) : i \in {h \in 1..Len(rows) : rows[h].congestion # NaN}}
GroupMean(rows, key) ==
    series_mean(SelectSeq(rows, LAMBDA row :
        GroupKey(row) = key /\ row.congestion # NaN))

\* a >= b for two floats: never true of NaN
NotSmaller(a, b) == a # NaN /\ b # NaN /\ FloatLE(b, a)

IsNumber(x) == x # PyNone /\ x.k \in {"fin", "inf"}

\* C12: get_data_quality_report on a table without a reading reports min,
\* max, mean and median as None and both counts as 0; on a table with a
\* reading the four are numbers, negative_count is the number of readings
\* below 0 and over_100_count the number above 100, both 0 when every
\* reading lies in [0, 50].
C12_QualityStats ==
    (pc = "query" /\ call.fn = "get_data_quality_report") =>
        LET report == call.ret
            Valid  == {i \in 1..Len(filtered_df) :
                          filtered_df[i].congestion # NaN}
            Value(i) == filtered_df[i].congestion
            Below(i, bound) ==
                \/ (Value(i).k = "inf" /\ Value(i).neg)
                \/ (Value(i).k = "fin" /\ Value(i).p < bound * Value(i).q)
            Above(i, bound) ==
                \/ (Value(i).k = "inf" /\ ~Value(i).neg)
                \/ (Value(i).k = "fin" /\ Value(i).p > bound * Value(i).q)
        IN  IF Valid = {}
            THEN /\ report.min_congestion = PyNone
                 /\ report.max_congestion = PyNone
                 /\ report.mean_congestion = PyNone
                 /\ report.median_congestion = PyNone
                 /\ report.negative_count = 0
                 /\ report.over_100_count = 0
            ELSE /\ IsNumber(report.min_congestion)
                 /\ IsNumber(report.max_congestion)
                 /\ IsNumber(report.mean_congestion)
                 /\ IsNumber(report.median_congestion)
                 /\ report.negative_count
                       = Cardinality({i \in Valid : Below(i, 0)})
                 /\ report.over_100_count
                       = Cardinality({i \in Valid : Above(i, 100)})
                 /\ (\A i \in Valid : ~Below(i, 0) /\ ~Above(i, 50))
                       => /\ report.negative_count = 0
                          /\ report.over_100_count = 0


\* the direction comparison has been made
Compared == pc \in {"directions", "lines", "top"}

C14_LoopRowsRetained ==
    (pc \notin {"start", "transformed", "error"}) =>
        \A r \in 1..RawR, j \in 1..RawK :
            df_raw.data[r][5] \in {DirInner, DirOuter} =>
                \E i \in 1..Len(df.rows) :
                    df.rows[i] = df_long.rows[(j - 1) * RawR + r]


\* what the body of the function last called returns when it is run now,
\* on the arguments of the call and the present content of the file
Recomputed ==
    CASE call.fn = "load_raw_data" -> file
      [] call.fn = "load_and_process_data" ->
             drop_loop_directions(transform_wide_to_long(file))
      [] call.fn = "filter_data" ->
             filter_data(call.args[1].rows, call.args[2], call.args[3],
                         call.args[4], call.args[5], call.args[6],
                         call.args[7])
      [] call.fn = "filter_for_direction_compare" ->
             filter_for_direction_compare(call.args[1].rows, call.args[2],
                 call.args[3], call.args[4], call.args[5], call.args[6])
      [] call.fn = "filter_for_line_compare" ->
             filter_for_line_compare(call.args[1].rows, call.args[2],
                 call.args[3], call.args[4], call.args[5], call.args[6])
      [] call.fn = "calculate_kpis" -> calculate_kpis(call.args[1])

\* C15: a call of a memoized function that is answered from the cache
\* returns what recomputing it at that moment returns, whatever calls and
\* changes of the file came before.
C15_CacheSound ==
    (pc = "cache" /\ call # NoCall /\ call.hit) => call.ret = Recomputed


\* C16: once built, the long table is never modified: after any calls of
\* the filters, calculate_kpis, get_data_quality_report and the rankings,
\* and any change of a table a filter returned, the object of the long
\* table holds the rows it was built with, and the table each filter
\* returned is another object.
C16_LongTableUnchanged ==
    pc = "frame" =>
        /\ heap[df] = df_long.rows
        /\ \A ref \in {filtered_df, direction_compare_df, line_compare_df}
                          \ {0} : ref # df

\* C16's case: a filter returned rows of the long table, the ranking got
\* its columns, and the filter's table was then changed in place
C16_Witness ==
    /\ pc = "frame"
    /\ filtered_df # 0
    /\ top_df # 0
    /\ Len(heap[top_df]) > 0
    /\ Len(heap[filtered_df]) > 0
    /\ \A i \in 1..Len(heap[filtered_df]) :
          heap[filtered_df][i].congestion = NaN
    /\ \E i \in 1..Len(heap[df]) : heap[df][i].congestion # NaN

\* C17: load_raw_data decodes the file as UTF-8 first; it tries CP949 when
\* and only when the UTF-8 decode fails; when UTF-8 succeeds its table is
\* the one returned; when both fail the error ends the run, no table is
\* returned, and the dashboard is rendered only with a table that one of
\* the two decodes gave in full.
C17_EncodingFallback ==
    (pc \in {"loaded", "dashboard", "error"} /\ call.fn = "load_raw_data") =>
        LET utf8  == read_csv(file.bytes, "utf-8")
            cp949 == read_csv(file.bytes, "cp949")
        IN  /\ call.tried[1] = "utf-8"
            /\ Len(call.tried) = 2 <=> utf8 = UnicodeDecodeError
            /\ Len(call.tried) = 2 => call.tried[2] = "cp949"
            /\ utf8.k = "text" => (df_raw = utf8 /\ pc # "error")
            /\ (utf8 = UnicodeDecodeError /\ cp949.k = "text") =>
                   (df_raw = cp949 /\ pc # "error")
            /\ (utf8 = UnicodeDecodeError /\ cp949 = UnicodeDecodeError) =>
                   (pc = "error" /\ df_raw = None /\ call.ret = cp949)
            /\ pc = "dashboard" =>
                   (df_raw.k = "text" /\ df_raw \in {utf8, cp949})

\* C17's case: a file that neither encoding decodes ended the run after
\* both were tried
C17_Witness ==
    /\ pc = "error"
    /\ call.fn = "load_raw_data"
    /\ call.tried = <<"utf-8", "cp949">>
    /\ read_csv(file.bytes, "utf-8") = UnicodeDecodeError
    /\ read_csv(file.bytes, "cp949") = UnicodeDecodeError
    /\ Len(file.bytes) = MaxBytes

\* the time slots of the kept table within the selected range
SlotsInRange ==
    {t \in Unique(df.rows, "time_slot") :
        StrLE(sel.start_time, t) /\ StrLE(t, sel.end_time)}

\* C18: the ranking of the dashboard is made from filter_data's rows, which
\* are not empty: every ranked row has the selected station, line and
\* direction, the 'average' ranking has at most one row, and the 'peak'
\* ranking has at most min(10, time slots in the selected range) rows.
C18_RankingWithinSelection ==
    pc = "top" =>
        /\ Len(filtered_df) > 0
        /\ \A i \in 1..Len(top_df) :
              /\ top_df[i].station_name = sel.station
              /\ top_df[i].line = sel.line
              /\ top_df[i].direction = sel.direction
        /\ call.top_criteria = "average" => Len(top_df) <= 1
        /\ call.top_criteria = "peak" =>
              /\ Len(top_df) <= top_n
              /\ Len(top_df) <= Cardinality(SlotsInRange)

============================================================================
